---- MODULE Spec2Model ----
(***************************************************************************)
(* Meridian RAG scoring engine (pipeline/scoring.py) and the page handlers *)
(* that call it (pages/create_workstream.py, pages/workstream.py).         *)
(*                                                                         *)
(* Numbers: Python floats are modelled as exact rationals [n, d] in lowest *)
(* terms with d > 0.  Dates and timestamps are whole days.  A nullable     *)
(* column or a missing row is an option value: Null is {} and a present    *)
(* value v is {v}.                                                         *)
(***************************************************************************)
EXTENDS Integers, Sequences, FiniteSets, TLC

\* ─── bounds of the model ──────────────────────────────────────────────────
MaxDay == 3
MaxFaults == 2
MaxCalls == 3
MaxRows == 1
MaxMilestones == 4
MaxBlockers == 2
MaxSpends == 2

\* ─── option values (SQL NULL / Python None / missing row) ─────────────────
Null == {}
Some(v) == {v}
Get(x) == CHOOSE v \in x : TRUE

\* ─── exact arithmetic standing for Python float arithmetic ────────────────
Abs(i) == IF i < 0 THEN -i ELSE i

RECURSIVE GCD(_, _)
GCD(a, b) == IF b = 0 THEN a ELSE GCD(b, a % b)

Rat(n, d) ==
    LET s == IF d < 0 THEN -1 ELSE 1
        g == GCD(Abs(n), Abs(d))
    IN  [n |-> (s * n) \div g, d |-> (s * d) \div g]

Num(i) == [n |-> i, d |-> 1]
RAdd(a, b) == Rat(a.n * b.d + b.n * a.d, a.d * b.d)
RSub(a, b) == Rat(a.n * b.d - b.n * a.d, a.d * b.d)
RMul(a, b) == Rat(a.n * b.n, a.d * b.d)
RDiv(a, b) == Rat(a.n * b.d, a.d * b.n)
RLt(a, b) == a.n * b.d < b.n * a.d
RLe(a, b) == a.n * b.d <= b.n * a.d
RGe(a, b) == RLe(b, a)
RGt(a, b) == RLt(b, a)
RMax(a, b) == IF RGe(a, b) THEN a ELSE b
RMin(a, b) == IF RLe(a, b) THEN a ELSE b

\* round(x, 2): nearest hundredth, ties to the even hundredth
Round2(x) ==
    LET y  == x.n * 100
        fl == y \div x.d
        r2 == 2 * (y - fl * x.d)
        up == r2 > x.d \/ (r2 = x.d /\ fl % 2 = 1)
    IN  Rat(IF up THEN fl + 1 ELSE fl, 100)

\* ─── module-level tables of scoring.py ────────────────────────────────────
SCHEDULE_THRESHOLDS == [green_min |-> Num(-10), amber_min |-> Num(-25)]
BUDGET_THRESHOLDS == [green_min |-> Num(-5), amber_min |-> Num(-15)]
BLOCKER_SCORES ==
    [no_blockers |-> 100, one_recent |-> 80, one_aging |-> 55, one_old |-> 25,
     multiple_max |-> 40, external_penalty |-> -10]
BLOCKER_AGE_THRESHOLDS == [recent_days |-> 3, aging_days |-> 7]
DEFAULT_WEIGHTS ==
    [schedule |-> Rat(40, 100), budget |-> Rat(35, 100), blocker |-> Rat(25, 100)]
COMPOSITE_THRESHOLDS == [green_min |-> Num(70), amber_min |-> Num(40)]
STALENESS_WINDOWS ==
    [k \in {"daily", "weekly", "biweekly", "monthly"} |->
        CASE k = "daily" -> 2 [] k = "weekly" -> 8
          [] k = "biweekly" -> 16 [] k = "monthly" -> 35]

\* The five baseline tables a call of _apply_wizard_modifiers reads
BaselineTables ==
    [SCHEDULE_THRESHOLDS    |-> SCHEDULE_THRESHOLDS,
     BUDGET_THRESHOLDS      |-> BUDGET_THRESHOLDS,
     BLOCKER_AGE_THRESHOLDS |-> BLOCKER_AGE_THRESHOLDS,
     DEFAULT_WEIGHTS        |-> DEFAULT_WEIGHTS,
     STALENESS_WINDOWS      |-> STALENESS_WINDOWS]

\* a mapping that returns the low end of the band, whatever the value
LowEndOfBand(value, low, high, out_low, out_high) == out_low

\* ─── _interp ──────────────────────────────────────────────────────────────
_interp(value, low, high, out_low, out_high) ==
    IF high = low THEN out_low
    ELSE LET t == RMax(Num(0), RMin(Num(1), RDiv(RSub(value, low), RSub(high, low))))
         IN  RAdd(out_low, RMul(t, RSub(out_high, out_low)))

\* ─── _get_wizard_config: merge of the wizard_config and workstreams rows ──
\* A missing row contributes nothing, so every field of it reads as None.
_get_wizard_config(wizard_row, ws_row) ==
    [q2_deadline_nature  |-> IF wizard_row = Null THEN Null ELSE Get(wizard_row).q2_deadline_nature,
     q4_budget_exposure  |-> IF wizard_row = Null THEN Null ELSE Get(wizard_row).q4_budget_exposure,
     q5_dependency_level |-> IF wizard_row = Null THEN Null ELSE Get(wizard_row).q5_dependency_level,
     q6_risk_level       |-> IF wizard_row = Null THEN Null ELSE Get(wizard_row).q6_risk_level,
     q7_phase            |-> IF wizard_row = Null THEN Null ELSE Get(wizard_row).q7_phase,
     q8_update_frequency |-> IF wizard_row = Null THEN Null ELSE Get(wizard_row).q8_update_frequency,
     start_date          |-> IF ws_row = Null THEN Null ELSE Get(ws_row).start_date,
     end_date            |-> IF ws_row = Null THEN Null ELSE Get(ws_row).end_date,
     planned_budget      |-> IF ws_row = Null THEN Null ELSE Get(ws_row).planned_budget]

\* ─── _apply_wizard_modifiers ──────────────────────────────────────────────
RawScheduleWeight(q2, t) ==
    IF q2 = Some("ongoing") THEN Rat(10, 100) ELSE t.DEFAULT_WEIGHTS.schedule

RawBudgetWeight(q4, t) ==
    IF q4 = Some("client_billable") THEN Rat(45, 100)
    ELSE IF q4 = Some("informal_none") THEN Rat(5, 100)
    ELSE t.DEFAULT_WEIGHTS.budget

\* the weight kept as adjusted, the division by the sum left out
NotRenormalised(w, total_w) == w

Renormalise(w, total_w) == RDiv(w, total_w)

\* the window of the default frequency, whatever q8 is
WeeklyWindow(q8, t) == Num(t.STALENESS_WINDOWS["weekly"])

\* a phase rule that tightens the cutoff it finds by 10
ReviewClosingAdds(q7, schedule_green) ==
    IF q7 = Some("review_closing") THEN RAdd(schedule_green, Num(-10)) ELSE schedule_green

\* q7 = review_closing: schedule_green = -10.0, whatever q2 made of it
ReviewClosingOverride(q7, schedule_green) ==
    IF q7 = Some("review_closing") THEN Num(-10) ELSE schedule_green

StalenessWindow(q8, t) ==
    IF q8 # Null /\ Get(q8) \in DOMAIN t.STALENESS_WINDOWS
    THEN Num(t.STALENESS_WINDOWS[Get(q8)])
    ELSE Num(t.STALENESS_WINDOWS["weekly"])

_apply_wizard_modifiers(config, t) ==
    LET q2 == config.q2_deadline_nature
        q4 == config.q4_budget_exposure
        q5 == config.q5_dependency_level
        q6 == config.q6_risk_level
        q7 == config.q7_phase
        q8 == config.q8_update_frequency
        \* q2: deadline nature
        sg1 == IF q2 = Some("hard_contractual") THEN Num(-5)
               ELSE IF q2 = Some("ongoing") THEN Num(-20)
               ELSE t.SCHEDULE_THRESHOLDS.green_min
        sa1 == IF q2 = Some("hard_contractual") THEN Num(-15)
               ELSE IF q2 = Some("ongoing") THEN Num(-40)
               ELSE t.SCHEDULE_THRESHOLDS.amber_min
        \* q4: budget exposure
        bg1 == IF q4 = Some("client_billable") THEN Num(-3) ELSE t.BUDGET_THRESHOLDS.green_min
        ba1 == IF q4 = Some("client_billable") THEN Num(-10) ELSE t.BUDGET_THRESHOLDS.amber_min
        \* q5: dependency level, float(int(x / 2))
        recent == IF q5 = Some("blocked_external")
                  THEN t.BLOCKER_AGE_THRESHOLDS.recent_days \div 2
                  ELSE t.BLOCKER_AGE_THRESHOLDS.recent_days
        aging  == IF q5 = Some("blocked_external")
                  THEN t.BLOCKER_AGE_THRESHOLDS.aging_days \div 2
                  ELSE t.BLOCKER_AGE_THRESHOLDS.aging_days
        \* q7: project phase
        sg2 == ReviewClosingOverride(q7, sg1)
        ba2 == IF q7 # Some("review_closing") /\ q7 = Some("discovery") THEN Num(-20) ELSE ba1
        \* q6: risk level, applied last
        shift == IF q6 = Some("high") THEN Num(5)
                 ELSE IF q6 = Some("critical") THEN Num(10)
                 ELSE Num(0)
        window == StalenessWindow(q8, t)
        \* weight re-normalisation
        w_s == RawScheduleWeight(q2, t)
        w_b == RawBudgetWeight(q4, t)
        w_k == t.DEFAULT_WEIGHTS.blocker
        total_w == RAdd(RAdd(w_s, w_b), w_k)
    IN  [schedule_green      |-> RAdd(sg2, shift),
         schedule_amber      |-> RAdd(sa1, shift),
         budget_green        |-> RAdd(bg1, shift),
         budget_amber        |-> RAdd(ba2, shift),
         blocker_recent_days |-> recent,
         blocker_aging_days  |-> aging,
         w_schedule          |-> Renormalise(w_s, total_w),
         w_budget            |-> Renormalise(w_b, total_w),
         w_blocker           |-> Renormalise(w_k, total_w),
         staleness_days      |-> IF q6 = Some("critical") THEN RDiv(window, Num(2)) ELSE window,
         q4_budget_exposure  |-> q4,
         q5_dependency_level |-> q5,
         q7_phase            |-> q7]

\* ─── outcome of a scorer: a score, or an exception raised to calculate_rag ─
Ok(v) == [raised |-> FALSE, value |-> v]
Raised == [raised |-> TRUE, value |-> Num(0)]

Count(seq, Test(_)) == Cardinality({i \in DOMAIN seq : Test(seq[i])})

\* the schedule score returned as computed, the final clamp left out
UnclampedScore(score) == score

\* return max(0.0, min(100.0, score)), at the end of each of the two scorers
ClampScheduleScore(score) == RMax(Num(0), RMin(Num(100), score))
ClampBudgetScore(score) == RMax(Num(0), RMin(Num(100), score))

\* the share of the span that has passed, with no clamp to [0, 100]
UnclampedTimePct(start_date, end_date, today) ==
    LET span_days == end_date - start_date
    IN  IF span_days <= 0 THEN Num(100)
        ELSE RMul(Rat(today - start_date, span_days), Num(100))

\* time_pct as _score_schedule computes it
ScheduleTimePct(start_date, end_date, today) ==
    LET span_days == end_date - start_date
        raw_pct == IF span_days <= 0 THEN Num(100)
                   ELSE RMul(Rat(today - start_date, span_days), Num(100))
    IN  RMax(Num(0), RMin(Num(100), raw_pct))

\* time_pct as _score_budget computes it
BudgetTimePct(start_date, end_date, today) ==
    LET span_days == end_date - start_date
        raw_pct == IF span_days <= 0 THEN Num(100)
                   ELSE RMul(Rat(today - start_date, span_days), Num(100))
    IN  RMax(Num(0), RMin(Num(100), raw_pct))

\* a count of the incomplete milestones due today or earlier
DueTodayOrEarlier(ms, today) ==
    Count(ms, LAMBDA m : /\ m.status # "complete"
                         /\ m.due_date # Null
                         /\ Get(m.due_date) <= today)

\* overdue: the incomplete milestones with a due date strictly before today
OverdueIncomplete(ms, today) ==
    Count(ms, LAMBDA m : /\ m.status # "complete"
                         /\ m.due_date # Null
                         /\ Get(m.due_date) < today)

\* a scorer that finds nothing to assess and reports the lowest score
NothingToAssessIsRed == Num(0)

\* if not milestones: return 100.0
ZeroMilestoneScore == Num(100)

\* ─── _score_schedule ──────────────────────────────────────────────────────
\* ws: the workstreams row (option); ms: the milestones of the workstream
_score_schedule(ws, ms, thresholds, today) ==
    IF ms = <<>> THEN Ok(ZeroMilestoneScore)
    ELSE IF ws = Null \/ Get(ws).start_date = Null \/ Get(ws).end_date = Null
    THEN Raised
    ELSE
    LET total == Len(ms)
        complete == Count(ms, LAMBDA m : m.status = "complete")
        milestone_pct == RMul(Rat(complete, total), Num(100))
        start_date == Get(Get(ws).start_date)
        end_date == Get(Get(ws).end_date)
        time_pct == ScheduleTimePct(start_date, end_date, today)
        sv == RSub(milestone_pct, time_pct)
        green_min == thresholds.schedule_green
        amber_min == thresholds.schedule_amber
        banded == IF RGe(sv, green_min) THEN Num(100)
                  ELSE IF RGe(sv, amber_min)
                  THEN _interp(sv, amber_min, green_min, Num(70), Num(99))
                  ELSE _interp(RMax(Num(-100), sv), Num(-100), amber_min, Num(1), Num(69))
        overdue == OverdueIncomplete(ms, today)
        score == IF thresholds.q7_phase = Some("review_closing")
                 THEN RSub(banded, Num(overdue * 10))
                 ELSE banded
    IN  Ok(ClampScheduleScore(score))

\* the overspend as a share of the budget: the variance with its sign reversed
OverspendShare(planned, time_pct, actual_spend) ==
    RMul(RDiv(RSub(actual_spend, RDiv(RMul(planned, time_pct), Num(100))), planned),
         Num(100))

\* bv = (planned_to_date - actual_spend) / planned_budget * 100.0
BudgetVariance(planned, time_pct, actual_spend) ==
    LET planned_to_date == RDiv(RMul(planned, time_pct), Num(100))
    IN  RMul(RDiv(RSub(planned_to_date, actual_spend), planned), Num(100))

\* a budget scorer that tracks the budget whatever the exposure
InformalBudgetTracked(q4) == FALSE

\* thresholds.get("q4_budget_exposure") == "informal_none"
IsInformalBudget(q4) == q4 = Some("informal_none")

\* ─── _score_budget ────────────────────────────────────────────────────────
\* total_spend: COALESCE(SUM(amount), 0) over the workstream's spend entries
_score_budget(ws, total_spend, thresholds, today) ==
    LET planned_budget == IF ws = Null THEN Null ELSE Get(ws).planned_budget
    IN
    IF IsInformalBudget(thresholds.q4_budget_exposure) THEN Ok(Num(100))
    ELSE IF planned_budget = Null \/ Get(planned_budget) = 0 THEN Ok(Num(100))
    ELSE IF Get(ws).start_date = Null \/ Get(ws).end_date = Null THEN Raised
    ELSE
    LET planned == Num(Get(planned_budget))
        actual_spend == Num(total_spend)
        start_date == Get(Get(ws).start_date)
        end_date == Get(Get(ws).end_date)
        time_pct == BudgetTimePct(start_date, end_date, today)
        bv == BudgetVariance(planned, time_pct, actual_spend)
        green_min == thresholds.budget_green
        amber_min == thresholds.budget_amber
        score == IF RGe(bv, green_min) THEN Num(100)
                 ELSE IF RGe(bv, amber_min)
                 THEN _interp(bv, amber_min, green_min, Num(70), Num(99))
                 ELSE _interp(RMax(Num(-100), bv), Num(-100), amber_min, Num(1), Num(69))
    IN  Ok(ClampBudgetScore(score))

\* ─── _score_blockers ──────────────────────────────────────────────────────
\* open: the blockers of the workstream with status = 'open'
\* the score before the external-dependency penalty
RawBlockerScore(open, thresholds, today) ==
    LET recent_days == thresholds.blocker_recent_days
        aging_days == thresholds.blocker_aging_days
        age == today - open[1].date_raised
    IN  IF open = <<>> THEN BLOCKER_SCORES.no_blockers
        ELSE IF Len(open) >= 2 THEN BLOCKER_SCORES.multiple_max
        ELSE IF age < recent_days THEN BLOCKER_SCORES.one_recent
        ELSE IF age <= aging_days THEN BLOCKER_SCORES.one_aging
        ELSE BLOCKER_SCORES.one_old

\* a scorer without the penalty
NoExternalPenalty(raw, q5) == Num(raw)

\* if q5 == "blocked_external": score = max(0.0, score + external_penalty)
ExternalPenalty(raw, q5) ==
    IF q5 = Some("blocked_external")
    THEN RMax(Num(0), Num(raw + BLOCKER_SCORES.external_penalty))
    ELSE Num(raw)

_score_blockers(open, thresholds, today) ==
    Ok(ExternalPenalty(RawBlockerScore(open, thresholds, today),
                       thresholds.q5_dependency_level))

\* ─── _check_staleness ─────────────────────────────────────────────────────
\* The query is a cross join of the three tables filtered on the workstream:
\* it has rows only when each of the three has one, and GREATEST is then the
\* largest of the three maxima; otherwise latest is NULL.
MaxOf(S) == CHOOSE x \in S : \A y \in S : y <= x

_check_staleness(ms, spends, bls, staleness_days, now_) ==
    IF ms = <<>> \/ spends = <<>> \/ bls = <<>> THEN FALSE
    ELSE
    LET latest == MaxOf({ms[i].updated_at : i \in DOMAIN ms}
                        \cup {spends[i].created_at : i \in DOMAIN spends}
                        \cup {bls[i].updated_at : i \in DOMAIN bls})
        gap_days == Num(now_ - latest)
    IN  RGt(gap_days, staleness_days)

\* ─── calculate_rag: composite, status, result dict ────────────────────────
\* the plain mean of the three sub-scores, whatever the weights
MeanOfScores(schedule_score, budget_score, blocker_score, thresholds) ==
    RDiv(RAdd(RAdd(schedule_score, budget_score), blocker_score), Num(3))

Composite(schedule_score, budget_score, blocker_score, thresholds) ==
    RAdd(RAdd(RMul(schedule_score, thresholds.w_schedule),
              RMul(budget_score, thresholds.w_budget)),
         RMul(blocker_score, thresholds.w_blocker))

RagStatus(composite) ==
    IF RGe(composite, COMPOSITE_THRESHOLDS.green_min) THEN "green"
    ELSE IF RGe(composite, COMPOSITE_THRESHOLDS.amber_min) THEN "amber"
    ELSE "red"

ResultDict(schedule_score, budget_score, blocker_score, is_stale, thresholds) ==
    LET composite == Composite(schedule_score, budget_score, blocker_score, thresholds)
    IN  [schedule_score  |-> Some(Round2(schedule_score)),
         budget_score    |-> Some(Round2(budget_score)),
         blocker_score   |-> Some(Round2(blocker_score)),
         composite_score |-> Some(Round2(composite)),
         rag_status      |-> Some(RagStatus(composite)),
         is_stale        |-> Some(is_stale)]

\* Absolute last resort: zeroed red result
Sentinel ==
    [schedule_score  |-> Some(Num(0)),
     budget_score    |-> Some(Num(0)),
     blocker_score   |-> Some(Num(0)),
     composite_score |-> Some(Num(0)),
     rag_status      |-> Some("red"),
     is_stale        |-> Some(TRUE)]

\* the resolved cutoffs written back into the module-level tables
TablesAdjustedInPlace(t, thresholds) ==
    [t EXCEPT !.SCHEDULE_THRESHOLDS = [green_min |-> thresholds.schedule_green,
                                       amber_min |-> thresholds.schedule_amber],
              !.BUDGET_THRESHOLDS = [green_min |-> thresholds.budget_green,
                                     amber_min |-> thresholds.budget_amber]]

\* _apply_wizard_modifiers copies the baselines into locals and adjusts the
\* locals: the module-level tables are the same after the call
TablesAfter(t, thresholds) == t

\* ═══ state ═════════════════════════════════════════════════════════════════
VARIABLES
    tables,         \* the module-level baseline tables of scoring.py
    workstreams,    \* workstreams table: id -> option row
    wizard_config,  \* wizard_config table: workstream id -> option row
    milestones,     \* milestones table, a sequence of rows
    spend_entries,  \* spend_entries table, a sequence of rows
    blockers,       \* blockers table, a sequence of rows
    rag_scores,     \* rag_scores table, a sequence of rows
    now,            \* the wall clock, in days; today is the same day
    pc,             \* per session: where its calculate_rag call stands
    wid,            \* per session: the workstream_id argument of the call
    local,          \* per session: the locals of calculate_rag
    call_info,      \* per session: upsert attempts, fallback reads, start day,
                    \* database states that existed during the call
    result,         \* per session: the value the last call returned
    outcome,        \* per session: how the last call ended
    faults_left,    \* storage failures the environment may still inject
    calls_left,     \* handler runs still allowed
    ever_scored,    \* per workstream: a calculate_rag upsert has succeeded
    last_call       \* per workstream: the last completed call

dbVars == <<workstreams, wizard_config, milestones, spend_entries, blockers>>
vars == <<tables, workstreams, wizard_config, milestones, spend_entries, blockers,
          rag_scores, now, pc, wid, local, call_info, result, outcome,
          faults_left, calls_left, ever_scored, last_call>>

WorkstreamIds == {"w1"}
Sessions == {"s1"}

NoLocal ==
    [thresholds |-> Null, schedule_score |-> Null, budget_score |-> Null,
     blocker_score |-> Null, is_stale |-> Null]

\* ─── table access ─────────────────────────────────────────────────────────
RowsOf(table, w) == SelectSeq(table, LAMBDA r : r.workstream_id = w)
\* a query without the status filter
AnyStatusOf(table, w) == SelectSeq(table, LAMBDA r : r.workstream_id = w)

OpenOf(table, w) == SelectSeq(table, LAMBDA r : r.workstream_id = w /\ r.status = "open")

RECURSIVE SumAmounts(_)
SumAmounts(seq) == IF seq = <<>> THEN 0 ELSE Head(seq).amount + SumAmounts(Tail(seq))

RemoveAt(seq, i) == [j \in 1..(Len(seq) - 1) |-> IF j < i THEN seq[j] ELSE seq[j + 1]]

\* the six result fields of a rag_scores row, as the fallback returns them
SixOf(row) ==
    [schedule_score  |-> row.schedule_score,
     budget_score    |-> row.budget_score,
     blocker_score   |-> row.blocker_score,
     composite_score |-> row.composite_score,
     rag_status      |-> row.rag_status,
     is_stale        |-> row.is_stale]

\* the payload of the upsert: workstream_id, calculated_at and the result
ScoreRow(w, res, at) ==
    [workstream_id   |-> w,
     calculated_at   |-> Some(at),
     schedule_score  |-> res.schedule_score,
     budget_score    |-> res.budget_score,
     blocker_score   |-> res.blocker_score,
     composite_score |-> res.composite_score,
     rag_status      |-> res.rag_status,
     is_stale        |-> res.is_stale]

\* a plain insert, which an upsert is not
AppendRow(rows, row) == Append(rows, row)

\* a write that updates the scores of the row and leaves its other columns
ScoresOnlyUpsert(rows, row) ==
    [i \in DOMAIN rows |->
        IF rows[i].workstream_id = row.workstream_id
        THEN [rows[i] EXCEPT !.schedule_score = row.schedule_score,
                             !.budget_score = row.budget_score,
                             !.blocker_score = row.blocker_score,
                             !.composite_score = row.composite_score]
        ELSE rows[i]]

\* upsert keyed by workstream_id: replace the row in place, else insert it
Upsert(rows, row) ==
    IF \E i \in DOMAIN rows : rows[i].workstream_id = row.workstream_id
    THEN [i \in DOMAIN rows |->
            IF rows[i].workstream_id = row.workstream_id THEN row ELSE rows[i]]
    ELSE Append(rows, row)

\* INSERT INTO rag_scores (workstream_id): every other column takes its column
\* default, which the source does not fix: NULL, or a declared default.
SeedColumns ==
    { [schedule_score |-> Null, budget_score |-> Null, blocker_score |-> Null,
       composite_score |-> Null, rag_status |-> Null, is_stale |-> Null],
      [schedule_score |-> Some(Num(0)), budget_score |-> Some(Num(0)),
       blocker_score |-> Some(Num(0)), composite_score |-> Some(Num(0)),
       rag_status |-> Some("green"), is_stale |-> Some(FALSE)] }

SeedRow(w, cols) ==
    [workstream_id   |-> w,
     calculated_at   |-> Null,
     schedule_score  |-> cols.schedule_score,
     budget_score    |-> cols.budget_score,
     blocker_score   |-> cols.blocker_score,
     composite_score |-> cols.composite_score,
     rag_status      |-> cols.rag_status,
     is_stale        |-> cols.is_stale]

\* a fallback that ignores the stored row
ZeroedResult(rows, w) == Sentinel

\* .select("*").eq("workstream_id", id).single(): the row when exactly one
\* matches; otherwise the client raises and the zeroed result is returned
FallbackResult(rows, w) ==
    LET found == RowsOf(rows, w)
    IN  IF Len(found) = 1 THEN SixOf(found[1]) ELSE Sentinel

FallbackOutcome(rows, w) ==
    IF Len(RowsOf(rows, w)) = 1 THEN "last_known" ELSE "sentinel"

\* where an exception raised inside the outer try leads
OnError == "fallback"

\* a write path that tries the upsert again
RetryUpsert == "upsert"

\* where an exception raised by the upsert leads: the same except clause
OnUpsertError == "fallback"

\* the environment may fail a storage call while it has failures left
FaultChoices == IF faults_left > 0 THEN {FALSE, TRUE} ELSE {FALSE}
Spend(fail) == IF fail THEN faults_left - 1 ELSE faults_left

\* ═══ calculate_rag, one action per storage round trip ══════════════════════
\* the committed contents of the five tables the scoring engine reads
Database ==
    [workstreams |-> workstreams, wizard_config |-> wizard_config,
     milestones |-> milestones, spend_entries |-> spend_entries, blockers |-> blockers]

\* entry of calculate_rag(w) in session s, after the caller's statement has
\* committed; the rag_scores rows of w at that moment are remembered, and so
\* is every state of the database that exists while a call is running
Enter(s, w) ==
    /\ pc[s] = "idle"
    /\ calls_left > 0
    /\ calls_left' = calls_left - 1
    /\ pc' = [pc EXCEPT ![s] = "config"]
    /\ wid' = [wid EXCEPT ![s] = w]
    /\ local' = [local EXCEPT ![s] = NoLocal]
    /\ call_info' = [t \in DOMAIN call_info |->
            IF t = s
            THEN [upserts |-> 0, fallback_reads |-> 0, started |-> now,
                  before |-> RowsOf(rag_scores', w), seen |-> {Database'}]
            ELSE IF pc[t] # "idle"
            THEN [call_info[t] EXCEPT !.seen = @ \cup {Database'}]
            ELSE call_info[t]]
    /\ result' = [result EXCEPT ![s] = Null]
    /\ outcome' = [outcome EXCEPT ![s] = "running"]
    /\ UNCHANGED <<tables, now, faults_left, ever_scored, last_call>>

\* a step of the computation that neither returns nor writes
Compute(s, fail, raised, next, loc) ==
    /\ faults_left' = Spend(fail)
    /\ pc' = [pc EXCEPT ![s] = IF fail \/ raised THEN OnError ELSE next]
    /\ local' = [local EXCEPT ![s] = IF fail \/ raised THEN local[s] ELSE loc]
    /\ UNCHANGED <<dbVars, rag_scores, now, wid, call_info, result, outcome,
                   calls_left, ever_scored, last_call>>

\* config = _get_wizard_config(w); thresholds = _apply_wizard_modifiers(config)
ConfigRead(s) ==
    /\ pc[s] = "config"
    /\ \E fail \in FaultChoices :
        LET config == _get_wizard_config(wizard_config[wid[s]], workstreams[wid[s]])
            thresholds == _apply_wizard_modifiers(config, tables)
        IN  /\ Compute(s, fail, FALSE, "schedule",
                       [local[s] EXCEPT !.thresholds = Some(thresholds)])
            /\ tables' = IF fail THEN tables ELSE TablesAfter(tables, thresholds)

ScheduleRead(s) ==
    /\ pc[s] = "schedule"
    /\ \E fail \in FaultChoices :
        LET r == _score_schedule(workstreams[wid[s]], RowsOf(milestones, wid[s]),
                                 Get(local[s].thresholds), now)
        IN  Compute(s, fail, r.raised, "budget",
                    [local[s] EXCEPT !.schedule_score = Some(r.value)])
    /\ UNCHANGED tables

BudgetRead(s) ==
    /\ pc[s] = "budget"
    /\ \E fail \in FaultChoices :
        LET r == _score_budget(workstreams[wid[s]],
                               SumAmounts(RowsOf(spend_entries, wid[s])),
                               Get(local[s].thresholds), now)
        IN  Compute(s, fail, r.raised, "blockers",
                    [local[s] EXCEPT !.budget_score = Some(r.value)])
    /\ UNCHANGED tables

BlockersRead(s) ==
    /\ pc[s] = "blockers"
    /\ \E fail \in FaultChoices :
        LET r == _score_blockers(OpenOf(blockers, wid[s]), Get(local[s].thresholds), now)
        IN  Compute(s, fail, r.raised, "staleness",
                    [local[s] EXCEPT !.blocker_score = Some(r.value)])
    /\ UNCHANGED tables

StalenessRead(s) ==
    /\ pc[s] = "staleness"
    /\ \E fail \in FaultChoices :
        LET stale == _check_staleness(RowsOf(milestones, wid[s]),
                                      RowsOf(spend_entries, wid[s]),
                                      RowsOf(blockers, wid[s]),
                                      Get(local[s].thresholds).staleness_days, now)
        IN  Compute(s, fail, FALSE, "upsert",
                    [local[s] EXCEPT !.is_stale = Some(stale)])
    /\ UNCHANGED tables

\* the call returns res and its locals are gone; the history of the
\* workstream records it
Return(s, res, how, rows) ==
    /\ pc' = [pc EXCEPT ![s] = "idle"]
    /\ local' = [local EXCEPT ![s] = NoLocal]
    /\ result' = [result EXCEPT ![s] = Some(res)]
    /\ outcome' = [outcome EXCEPT ![s] = how]
    /\ last_call' = [last_call EXCEPT ![wid[s]] =
            Some([outcome |-> how, result |-> res, started |-> call_info[s].started,
                  finished |-> now, row |-> RowsOf(rows, wid[s])])]

\* composite, rag_status, result; upsert into rag_scores; return result
UpsertWrite(s) ==
    /\ pc[s] = "upsert"
    /\ \E fail \in FaultChoices :
        LET res == ResultDict(Get(local[s].schedule_score), Get(local[s].budget_score),
                              Get(local[s].blocker_score), Get(local[s].is_stale),
                              Get(local[s].thresholds))
            written == Upsert(rag_scores, ScoreRow(wid[s], res, now))
        IN  /\ faults_left' = Spend(fail)
            /\ call_info' = [call_info EXCEPT ![s].upserts = @ + 1]
            /\ IF fail
               THEN /\ pc' = [pc EXCEPT ![s] = OnUpsertError]
                    /\ UNCHANGED <<rag_scores, local, result, outcome, ever_scored,
                                   last_call>>
               ELSE /\ rag_scores' = written
                    /\ ever_scored' = [ever_scored EXCEPT ![wid[s]] = TRUE]
                    /\ Return(s, res, "fresh", written)
    /\ UNCHANGED <<tables, dbVars, now, wid, calls_left>>

\* except Exception: read the last known record, else the zeroed red result
FallbackRead(s) ==
    /\ pc[s] = "fallback"
    /\ \E fail \in FaultChoices :
        /\ faults_left' = Spend(fail)
        /\ IF fail
           THEN Return(s, Sentinel, "sentinel", rag_scores)
           ELSE Return(s, FallbackResult(rag_scores, wid[s]),
                       FallbackOutcome(rag_scores, wid[s]), rag_scores)
    /\ call_info' = [call_info EXCEPT ![s].fallback_reads = @ + 1]
    /\ UNCHANGED <<tables, dbVars, rag_scores, now, wid, calls_left, ever_scored>>

CalculateRag(s) ==
    \/ ConfigRead(s)
    \/ ScheduleRead(s)
    \/ BudgetRead(s)
    \/ BlockersRead(s)
    \/ StalenessRead(s)
    \/ UpsertWrite(s)
    \/ FallbackRead(s)

\* the clock advances a day
Tick ==
    /\ now < MaxDay
    /\ now' = now + 1
    /\ UNCHANGED <<tables, dbVars, rag_scores, pc, wid, local, call_info, result,
                   outcome, faults_left, calls_left, ever_scored, last_call>>

\* ═══ specification of the scoring of given data ════════════════════════════
\* calculate_rag is called, repeatedly, on a database drawn from bounded sets;
\* no storage failure is injected.
SeqsUpTo(S, n) == UNION {[1..k -> S] : k \in 0..n}

WizardRow(q2, q4, q5, q6, q7, q8) ==
    Some([q2_deadline_nature |-> Some(q2), q4_budget_exposure |-> Some(q4),
          q5_dependency_level |-> Some(q5), q6_risk_level |-> Some(q6),
          q7_phase |-> Some(q7), q8_update_frequency |-> Some(q8)])

ScoreWizardRows ==
    { Null,
      WizardRow("business_driven", "approved_internal", "self_contained", "high",
                "planning", "weekly"),
      WizardRow("hard_contractual", "client_billable", "self_contained", "high",
                "discovery", "weekly"),
      WizardRow("ongoing", "informal_none", "blocked_external", "critical",
                "review_closing", "daily") }

ScoreWorkstreamRows ==
    { Null,
      Some([start_date |-> Some(0), end_date |-> Some(3), planned_budget |-> Some(4)]),
      Some([start_date |-> Some(0), end_date |-> Some(3), planned_budget |-> Null]),
      Some([start_date |-> Null, end_date |-> Null, planned_budget |-> Some(4)]),
      Some([start_date |-> Null, end_date |-> Null, planned_budget |-> Null]) }

ScoreMilestoneRows ==
    { [workstream_id |-> "w1", status |-> st, due_date |-> Some(1), updated_at |-> 0] :
        st \in {"not_started", "complete"} }

ScoreSpendRows ==
    { [workstream_id |-> "w1", amount |-> a, created_at |-> 0] : a \in {5, 400} }

ScoreBlockerRows ==
    { [workstream_id |-> "w1", status |-> st, date_raised |-> 0, updated_at |-> 0] :
        st \in {"open", "resolved"} }

InitSessions ==
    /\ tables = BaselineTables
    /\ rag_scores = <<>>
    /\ now = 0
    /\ pc = [s \in Sessions |-> "idle"]
    /\ wid = [s \in Sessions |-> "w1"]
    /\ local = [s \in Sessions |-> NoLocal]
    /\ call_info = [s \in Sessions |->
            [upserts |-> 0, fallback_reads |-> 0, started |-> 0, before |-> <<>>,
             seen |-> {}]]
    /\ result = [s \in Sessions |-> Null]
    /\ outcome = [s \in Sessions |-> "none"]
    /\ calls_left = MaxCalls
    /\ ever_scored = [w \in WorkstreamIds |-> FALSE]
    /\ last_call = [w \in WorkstreamIds |-> Null]

InitScore ==
    /\ InitSessions
    /\ faults_left = 0
    /\ \E row \in ScoreWorkstreamRows :
        workstreams = [w \in WorkstreamIds |-> IF w = "w1" THEN row ELSE Null]
    /\ \E row \in ScoreWizardRows :
        wizard_config = [w \in WorkstreamIds |-> IF w = "w1" THEN row ELSE Null]
    /\ milestones \in SeqsUpTo(ScoreMilestoneRows, MaxRows)
    /\ spend_entries \in SeqsUpTo(ScoreSpendRows, MaxRows)
    /\ blockers \in SeqsUpTo(ScoreBlockerRows, MaxRows)
    \* rows of the three fact tables belong to an existing workstream
    /\ workstreams["w1"] = Null =>
            milestones = <<>> /\ spend_entries = <<>> /\ blockers = <<>>

\* a caller invokes calculate_rag(w) with the data as it stands
Recalculate(s, w) ==
    /\ UNCHANGED <<dbVars, rag_scores>>
    /\ Enter(s, w)

\* a day passes between two calls
TickIdle ==
    /\ \A s \in Sessions : pc[s] = "idle"
    /\ Tick

NextScore ==
    \/ \E s \in Sessions, w \in WorkstreamIds : Recalculate(s, w)
    \/ \E s \in Sessions : CalculateRag(s)
    \/ TickIdle

SpecScore == InitScore /\ [][NextScore]_vars

\* ═══ specification of the modifier compiler ════════════════════════════════
\* the first step of calculate_rag on every combination of wizard answers
Answers(S) == {Null} \cup {Some(a) : a \in S}

AllWizardRows ==
    { Some([q2_deadline_nature |-> q2, q4_budget_exposure |-> q4,
            q5_dependency_level |-> q5, q6_risk_level |-> q6,
            q7_phase |-> q7, q8_update_frequency |-> q8]) :
        q2 \in Answers({"hard_contractual", "business_driven", "self_imposed", "ongoing"}),
        q4 \in Answers({"client_billable", "approved_internal", "informal_none"}),
        q5 \in Answers({"self_contained", "depends_1_2", "depends_multiple", "blocked_external"}),
        q6 \in Answers({"low", "medium", "high", "critical"}),
        q7 \in Answers({"discovery", "planning", "in_flight", "review_closing"}),
        q8 \in Answers({"daily", "weekly", "biweekly", "monthly", "hourly"}) }

InitMod ==
    /\ InitSessions
    /\ faults_left = 0
    /\ workstreams = [w \in WorkstreamIds |-> Null]
    /\ \E row \in AllWizardRows \cup {Null} :
        wizard_config = [w \in WorkstreamIds |-> row]
    /\ milestones = <<>>
    /\ spend_entries = <<>>
    /\ blockers = <<>>

NextMod ==
    \/ \E s \in Sessions, w \in WorkstreamIds : Recalculate(s, w)
    \/ \E s \in Sessions : ConfigRead(s)

SpecMod == InitMod /\ [][NextMod]_vars

\* ═══ specifications of the three scorers ═══════════════════════════════════
\* calculate_rag is run up to its staleness check on a database drawn from
\* bounded sets, on each day up to MaxDay; no storage failure is injected.
InitScorer(ws_rows, wizard_rows, ms_seqs, spend_seqs, blocker_seqs) ==
    /\ InitSessions
    /\ faults_left = 0
    /\ \E row \in ws_rows : workstreams = [w \in WorkstreamIds |-> row]
    /\ \E row \in wizard_rows : wizard_config = [w \in WorkstreamIds |-> row]
    /\ milestones \in ms_seqs
    /\ spend_entries \in spend_seqs
    /\ blockers \in blocker_seqs

NextScorer ==
    \/ \E s \in Sessions, w \in WorkstreamIds : Recalculate(s, w)
    \/ \E s \in Sessions : ConfigRead(s)
    \/ \E s \in Sessions : ScheduleRead(s)
    \/ \E s \in Sessions : BudgetRead(s)
    \/ \E s \in Sessions : BlockersRead(s)
    \/ TickIdle

\* workstreams rows with every order of start and end date, and without dates
DatedWorkstreamRows(budgets) ==
    { Some([start_date |-> Some(a), end_date |-> Some(b), planned_budget |-> pb]) :
        a \in 0..2, b \in 0..MaxDay, pb \in budgets }
    \cup { Some([start_date |-> Null, end_date |-> Null, planned_budget |-> pb]) :
            pb \in budgets }

\* the answers the schedule scorer depends on, every other answer unset
ScheduleWizardRows ==
    { Null } \cup
    { Some([q2_deadline_nature |-> q2, q4_budget_exposure |-> Null,
            q5_dependency_level |-> Null, q6_risk_level |-> q6,
            q7_phase |-> q7, q8_update_frequency |-> Null]) :
        q2 \in Answers({"hard_contractual", "ongoing"}),
        q6 \in Answers({"critical"}),
        q7 \in Answers({"review_closing"}) }

InitSchedule ==
    InitScorer({Null} \cup DatedWorkstreamRows({Null}), ScheduleWizardRows,
               SeqsUpTo(ScoreMilestoneRows, MaxMilestones), {<<>>}, {<<>>})

SpecSchedule == InitSchedule /\ [][NextScorer]_vars

\* milestones complete and not, with a due date and without
PenaltyMilestoneRows ==
    { [workstream_id |-> "w1", status |-> st, due_date |-> due, updated_at |-> 0] :
        st \in {"not_started", "complete"}, due \in {Null, Some(1)} }

\* no wizard row, and rows that answer the phase only
PenaltyWizardRows ==
    { Null } \cup
    { Some([q2_deadline_nature |-> Null, q4_budget_exposure |-> Null,
            q5_dependency_level |-> Null, q6_risk_level |-> Null,
            q7_phase |-> q7, q8_update_frequency |-> Null]) :
        q7 \in Answers({"review_closing", "in_flight"}) }

\* a workstream that runs from day 0 to the last day, scored on every day
InitPenalty ==
    InitScorer({ Some([start_date |-> Some(0), end_date |-> Some(MaxDay),
                       planned_budget |-> Null]) },
               PenaltyWizardRows,
               SeqsUpTo(PenaltyMilestoneRows, MaxMilestones), {<<>>}, {<<>>})

SpecPenalty == InitPenalty /\ [][NextScorer]_vars

\* the answers the budget scorer depends on, every other answer unset
BudgetWizardRows ==
    { Null } \cup
    { Some([q2_deadline_nature |-> Null, q4_budget_exposure |-> q4,
            q5_dependency_level |-> Null, q6_risk_level |-> q6,
            q7_phase |-> q7, q8_update_frequency |-> Null]) :
        q4 \in Answers({"client_billable", "informal_none"}),
        q6 \in Answers({"critical"}),
        q7 \in Answers({"discovery"}) }

InitBudget ==
    InitScorer({Null} \cup DatedWorkstreamRows({Null, Some(0), Some(4)}), BudgetWizardRows,
               {<<>>}, SeqsUpTo(ScoreSpendRows, MaxSpends), {<<>>})

SpecBudget == InitBudget /\ [][NextScorer]_vars

\* dated workstreams with a budget and at least one milestone, so that both
\* the schedule and the budget scorer compute time_pct
InitElapsed ==
    InitScorer(DatedWorkstreamRows({Some(4)}), {Null},
               SeqsUpTo(ScoreMilestoneRows, MaxRows) \ {<<>>},
               SeqsUpTo(ScoreSpendRows, MaxRows), {<<>>})

SpecElapsed == InitElapsed /\ [][NextScorer]_vars

\* blockers raised today and four and five days before day 0, open and resolved
AgedBlockerRows ==
    { [workstream_id |-> "w1", status |-> st, date_raised |-> d, updated_at |-> d] :
        st \in {"open", "resolved"}, d \in {0, -4, -5} }

\* the answers the blocker scorer depends on, every other answer unset
BlockerWizardRows ==
    { Null } \cup
    { Some([q2_deadline_nature |-> Null, q4_budget_exposure |-> Null,
            q5_dependency_level |-> q5, q6_risk_level |-> Null,
            q7_phase |-> Null, q8_update_frequency |-> Null]) :
        q5 \in Answers({"blocked_external", "depends_1_2"}) }

InitBlockers ==
    InitScorer({Null, Some([start_date |-> Some(0), end_date |-> Some(3),
                            planned_budget |-> Null])},
               BlockerWizardRows, {<<>>}, {<<>>}, SeqsUpTo(AgedBlockerRows, MaxBlockers))

SpecBlockers == InitBlockers /\ [][NextScorer]_vars

\* ═══ specification of the application ══════════════════════════════════════
\* The pages create a workstream and change its milestones, spend entries and
\* blockers; every committed change is followed by calculate_rag; any storage
\* call may fail while the environment has failures left.
CreateWizardRows ==
    { WizardRow("hard_contractual", "client_billable", "self_contained", "high",
                "discovery", "weekly"),
      WizardRow("ongoing", "informal_none", "blocked_external", "critical",
                "review_closing", "daily") }

Init ==
    /\ InitSessions
    /\ faults_left = MaxFaults
    /\ workstreams = [w \in WorkstreamIds |-> Null]
    /\ wizard_config = [w \in WorkstreamIds |-> Null]
    /\ milestones = <<>>
    /\ spend_entries = <<>>
    /\ blockers = <<>>

\* the create form is submitted: the workstreams, wizard_config and seeded
\* rag_scores rows are committed together, then the initial scoring pass runs
CreateWorkstream(s, w) ==
    /\ workstreams[w] = Null
    /\ \E budget \in {Null, Some(4)}, wizard_row \in CreateWizardRows, cols \in SeedColumns :
        /\ workstreams' = [workstreams EXCEPT ![w] =
                Some([start_date |-> Some(now), end_date |-> Some(now + 2),
                      planned_budget |-> budget])]
        /\ wizard_config' = [wizard_config EXCEPT ![w] = wizard_row]
        /\ rag_scores' = Append(rag_scores, SeedRow(w, cols))
    /\ UNCHANGED <<milestones, spend_entries, blockers>>
    /\ Enter(s, w)

\* "Add Milestone": INSERT INTO milestones, then calculate_rag
AddMilestone(s, w) ==
    /\ workstreams[w] # Null
    /\ Len(milestones) < MaxRows
    /\ milestones' = Append(milestones,
            [workstream_id |-> w, status |-> "not_started", due_date |-> Some(now + 1),
             updated_at |-> now])
    /\ UNCHANGED <<workstreams, wizard_config, spend_entries, blockers, rag_scores>>
    /\ Enter(s, w)

\* "Save Changes": UPDATE milestones SET status, due_date, updated_at = NOW()
SaveMilestone(s, w) ==
    /\ \E i \in DOMAIN milestones :
        /\ milestones[i].workstream_id = w
        /\ milestones[i].status # "complete"
        /\ milestones' = [milestones EXCEPT ![i].status = "complete",
                                            ![i].updated_at = now]
    /\ UNCHANGED <<workstreams, wizard_config, spend_entries, blockers, rag_scores>>
    /\ Enter(s, w)

\* "Confirm Delete": DELETE FROM milestones WHERE id
DeleteMilestone(s, w) ==
    /\ \E i \in DOMAIN milestones :
        /\ milestones[i].workstream_id = w
        /\ milestones' = RemoveAt(milestones, i)
    /\ UNCHANGED <<workstreams, wizard_config, spend_entries, blockers, rag_scores>>
    /\ Enter(s, w)

\* "Log Spend": INSERT INTO spend_entries, then calculate_rag
LogSpend(s, w) ==
    /\ workstreams[w] # Null
    /\ Len(spend_entries) < MaxRows
    /\ spend_entries' = Append(spend_entries,
            [workstream_id |-> w, amount |-> 5, created_at |-> now])
    /\ UNCHANGED <<workstreams, wizard_config, milestones, blockers, rag_scores>>
    /\ Enter(s, w)

\* "Log Blocker": INSERT INTO blockers ... 'open', date raised today at the latest
LogBlocker(s, w) ==
    /\ workstreams[w] # Null
    /\ Len(blockers) < MaxRows
    /\ blockers' = Append(blockers,
            [workstream_id |-> w, status |-> "open", date_raised |-> now,
             updated_at |-> now])
    /\ UNCHANGED <<workstreams, wizard_config, milestones, spend_entries, rag_scores>>
    /\ Enter(s, w)

\* a resolve handler that commits and leaves the score as it is
ResolveWithoutRecalculation(s, w) ==
    /\ pc[s] = "idle"
    /\ \E i \in DOMAIN blockers :
        /\ blockers[i].workstream_id = w
        /\ blockers[i].status = "open"
        /\ blockers' = [blockers EXCEPT ![i].status = "resolved"]
    /\ UNCHANGED <<tables, workstreams, wizard_config, milestones, spend_entries,
                   rag_scores, now, pc, wid, local, call_info, result, outcome,
                   faults_left, calls_left, ever_scored, last_call>>

\* "Confirm Resolve": UPDATE blockers SET status = 'resolved', resolved_at = NOW()
ResolveBlocker(s, w) ==
    /\ \E i \in DOMAIN blockers :
        /\ blockers[i].workstream_id = w
        /\ blockers[i].status = "open"
        /\ blockers' = [blockers EXCEPT ![i].status = "resolved"]
    /\ UNCHANGED <<workstreams, wizard_config, milestones, spend_entries, rag_scores>>
    /\ Enter(s, w)

\* the statement of a handler raises: the handler reports the error and does
\* not call calculate_rag
HandlerFails(s) ==
    /\ pc[s] = "idle"
    /\ faults_left > 0
    /\ faults_left' = faults_left - 1
    /\ UNCHANGED <<tables, dbVars, rag_scores, now, pc, wid, local, call_info,
                   result, outcome, calls_left, ever_scored, last_call>>

Next ==
    \/ \E s \in Sessions, w \in WorkstreamIds : CreateWorkstream(s, w)
    \/ \E s \in Sessions, w \in WorkstreamIds : AddMilestone(s, w)
    \/ \E s \in Sessions, w \in WorkstreamIds : SaveMilestone(s, w)
    \/ \E s \in Sessions, w \in WorkstreamIds : DeleteMilestone(s, w)
    \/ \E s \in Sessions, w \in WorkstreamIds : LogSpend(s, w)
    \/ \E s \in Sessions, w \in WorkstreamIds : LogBlocker(s, w)
    \/ \E s \in Sessions, w \in WorkstreamIds : ResolveBlocker(s, w)
    \/ \E s \in Sessions : HandlerFails(s)
    \/ \E s \in Sessions : CalculateRag(s)
    \/ TickIdle

Spec == Init /\ [][Next]_vars

\* ═══ specification of two overlapping sessions ═════════════════════════════
\* Two browser sessions work on one workstream that exists already; each logs
\* spend or logs and resolves a blocker, and runs calculate_rag after it, the
\* steps of the two calls interleaved in every order; no call fails.
RaceSessions == {"s1", "s2"}

InitRace ==
    /\ tables = BaselineTables
    /\ now = 0
    /\ pc = [s \in RaceSessions |-> "idle"]
    /\ wid = [s \in RaceSessions |-> "w1"]
    /\ local = [s \in RaceSessions |-> NoLocal]
    /\ call_info = [s \in RaceSessions |->
            [upserts |-> 0, fallback_reads |-> 0, started |-> 0, before |-> <<>>,
             seen |-> {}]]
    /\ result = [s \in RaceSessions |-> Null]
    /\ outcome = [s \in RaceSessions |-> "none"]
    /\ calls_left = MaxCalls
    /\ faults_left = 0
    /\ ever_scored = [w \in WorkstreamIds |-> FALSE]
    /\ last_call = [w \in WorkstreamIds |-> Null]
    /\ workstreams = [w \in WorkstreamIds |->
            Some([start_date |-> Some(0), end_date |-> Some(3), planned_budget |-> Some(4)])]
    /\ \E row \in CreateWizardRows : wizard_config = [w \in WorkstreamIds |-> row]
    /\ milestones = <<>>
    /\ spend_entries = <<>>
    /\ blockers = <<>>
    /\ \E cols \in SeedColumns : rag_scores = <<SeedRow("w1", cols)>>

NextRace ==
    \/ \E s \in RaceSessions, w \in WorkstreamIds : LogSpend(s, w)
    \/ \E s \in RaceSessions, w \in WorkstreamIds : LogBlocker(s, w)
    \/ \E s \in RaceSessions, w \in WorkstreamIds : ResolveBlocker(s, w)
    \/ \E s \in RaceSessions : ConfigRead(s)
    \/ \E s \in RaceSessions : ScheduleRead(s)
    \/ \E s \in RaceSessions : BudgetRead(s)
    \/ \E s \in RaceSessions : BlockersRead(s)
    \/ \E s \in RaceSessions : StalenessRead(s)
    \/ \E s \in RaceSessions : UpsertWrite(s)

SpecRace == InitRace /\ [][NextRace]_vars

\* ═══ specification of two workstreams scored side by side ══════════════════
\* Two workstreams with their own wizard answers; two sessions call
\* calculate_rag for either of them, the steps of the calls interleaved in
\* every order, on every day; the data does not change and no call fails.
PairIds == {"w1", "w2"}

InitPair ==
    /\ tables = BaselineTables
    /\ now = 0
    /\ pc = [s \in RaceSessions |-> "idle"]
    /\ wid = [s \in RaceSessions |-> "w1"]
    /\ local = [s \in RaceSessions |-> NoLocal]
    /\ call_info = [s \in RaceSessions |->
            [upserts |-> 0, fallback_reads |-> 0, started |-> 0, before |-> <<>>,
             seen |-> {}]]
    /\ result = [s \in RaceSessions |-> Null]
    /\ outcome = [s \in RaceSessions |-> "none"]
    /\ calls_left = MaxCalls
    /\ faults_left = 0
    /\ ever_scored = [w \in PairIds |-> FALSE]
    /\ last_call = [w \in PairIds |-> Null]
    /\ workstreams = [w \in PairIds |->
            Some([start_date |-> Some(0), end_date |-> Some(3), planned_budget |-> Some(4)])]
    /\ \E row \in CreateWizardRows :
        wizard_config = [w \in PairIds |-> IF w = "w1" THEN Null ELSE row]
    /\ \E row \in ScoreMilestoneRows : milestones = <<row>>
    /\ spend_entries = <<>>
    /\ blockers = <<>>
    /\ rag_scores = <<>>

NextPair ==
    \/ \E s \in RaceSessions, w \in PairIds : Recalculate(s, w)
    \/ \E s \in RaceSessions : ConfigRead(s)
    \/ \E s \in RaceSessions : ScheduleRead(s)
    \/ \E s \in RaceSessions : BudgetRead(s)
    \/ \E s \in RaceSessions : BlockersRead(s)
    \/ \E s \in RaceSessions : StalenessRead(s)
    \/ \E s \in RaceSessions : UpsertWrite(s)
    \/ (\A s \in RaceSessions : pc[s] = "idle") /\ Tick

SpecPair == InitPair /\ [][NextPair]_vars

\* ═══ specification of the application as time passes ══════════════════════
\* A workstream with a milestone, a spend entry and an open blocker, all of day
\* 0; the handler that logged the last of them has committed and is about to
\* run calculate_rag.  From then on the user saves the milestone or resolves
\* the blocker, or does nothing; calculate_rag runs only in those handlers.
\* Days pass, and a call that has started runs to its end.
InitStale ==
    /\ tables = BaselineTables
    /\ now = 0
    /\ workstreams = [w \in WorkstreamIds |->
            Some([start_date |-> Some(0), end_date |-> Some(2), planned_budget |-> Some(4)])]
    /\ \E row \in CreateWizardRows : wizard_config = [w \in WorkstreamIds |-> row]
    /\ \E st \in {"not_started", "in_progress"} :
        milestones = <<[workstream_id |-> "w1", status |-> st, due_date |-> Some(1),
                        updated_at |-> 0]>>
    /\ \E a \in {1, 5} :
        spend_entries = <<[workstream_id |-> "w1", amount |-> a, created_at |-> 0]>>
    /\ blockers = <<[workstream_id |-> "w1", status |-> "open", date_raised |-> 0,
                     updated_at |-> 0]>>
    /\ \E cols \in SeedColumns : rag_scores = <<SeedRow("w1", cols)>>
    /\ pc = [s \in Sessions |-> "config"]
    /\ wid = [s \in Sessions |-> "w1"]
    /\ local = [s \in Sessions |-> NoLocal]
    /\ call_info = [s \in Sessions |->
            [upserts |-> 0, fallback_reads |-> 0, started |-> 0,
             before |-> rag_scores, seen |-> {Database}]]
    /\ result = [s \in Sessions |-> Null]
    /\ outcome = [s \in Sessions |-> "running"]
    /\ calls_left = MaxCalls - 1
    /\ faults_left = 0
    /\ ever_scored = [w \in WorkstreamIds |-> FALSE]
    /\ last_call = [w \in WorkstreamIds |-> Null]

\* the steps of a call that meets no failure
RunsCall ==
    \E s \in Sessions :
        \/ ConfigRead(s) \/ ScheduleRead(s) \/ BudgetRead(s)
        \/ BlockersRead(s) \/ StalenessRead(s) \/ UpsertWrite(s)

NextStale ==
    \/ \E s \in Sessions, w \in WorkstreamIds : SaveMilestone(s, w)
    \/ \E s \in Sessions, w \in WorkstreamIds : ResolveBlocker(s, w)
    \/ RunsCall
    \/ TickIdle

\* no call is running: a step of RunsCall is possible exactly when this is false
NoCallRunning == \A s \in Sessions : pc[s] = "idle"

\* weak fairness of the clock and of RunsCall, the latter written with its
\* enabling condition: a running call is not left unfinished forever
SpecStale ==
    InitStale /\ [][NextStale]_vars /\ WF_vars(TickIdle) /\ []<>NoCallRunning

\* ═══ claims ════════════════════════════════════════════════════════════════
InRange(x) == RLe(Num(0), x) /\ RLe(x, Num(100))

Fresh(s) == outcome[s] = "fresh"

\* the six fields and the key of the rows, calculated_at left out
BarCalculatedAt(rows) ==
    [i \in DOMAIN rows |-> <<rows[i].workstream_id, SixOf(rows[i])>>]

\* the step in which the call of session s returns from its except clause
ReturnsFromFailure(s) == pc[s] = "fallback" /\ pc'[s] = "idle"

Failed(s) == outcome[s] \in {"last_known", "sentinel"}

\* C1: every result calculate_rag returns has the six fields, the four scores
\* numeric and rag_status one of green, amber, red, whatever step failed
C1_WellFormedResult ==
    \A s \in Sessions :
        result[s] # Null =>
            LET r == Get(result[s])
            IN  /\ DOMAIN r = {"schedule_score", "budget_score", "blocker_score",
                               "composite_score", "rag_status", "is_stale"}
                /\ r.schedule_score # Null
                /\ r.budget_score # Null
                /\ r.blocker_score # Null
                /\ r.composite_score # Null
                /\ r.rag_status \in {Some("green"), Some("amber"), Some("red")}

\* C2 as stated: a call that fails while a rag_scores row of the workstream
\* is persisted returns the six values stored in that row
C2_FailureReturnsStoredRow ==
    [][\A s \in Sessions :
        (ReturnsFromFailure(s) /\ RowsOf(rag_scores, wid[s]) # <<>>)
            => Get(result'[s]) = SixOf(RowsOf(rag_scores, wid[s])[1])
      ]_vars

\* C2, amended: a call that fails while a rag_scores row of the workstream is
\* persisted returns the six values stored in that row, provided the read of
\* that row does not fail itself
C2_FailureReturnsStoredRowIfRead ==
    [][\A s \in Sessions :
        ( /\ ReturnsFromFailure(s)
          /\ RowsOf(rag_scores, wid[s]) # <<>>
          /\ faults_left' = faults_left )
            => Get(result'[s]) = SixOf(RowsOf(rag_scores, wid[s])[1])
      ]_vars

\* a call has failed after an earlier one had persisted a computed score, and
\* has returned that score
C2_Witness ==
    \E s \in Sessions :
        /\ outcome[s] = "last_known"
        /\ ever_scored[wid[s]]
        /\ RowsOf(rag_scores, wid[s]) # <<>>
        /\ result[s] = Some(SixOf(RowsOf(rag_scores, wid[s])[1]))
        /\ Get(result[s]).composite_score # Null

\* C3: a call that fails before any score of the workstream was ever computed
\* returns the zeroed red stale result
C3_FirstFailureReturnsSentinel ==
    [][\A s \in Sessions :
        (ReturnsFromFailure(s) /\ ~ever_scored[wid[s]])
            => Get(result'[s]) = Sentinel
      ]_vars

\* C4: a call makes at most one upsert attempt and at most one fallback read,
\* and while it has not succeeded, and after it has failed, the rag_scores row
\* of the workstream is the one the call found when it started
C4_NoRetryNoWrite ==
    \A s \in Sessions :
        /\ call_info[s].upserts <= 1
        /\ call_info[s].fallback_reads <= 1
        /\ (pc[s] # "idle" \/ Failed(s)) =>
                RowsOf(rag_scores, wid[s]) = call_info[s].before

\* the upsert of a call failed, the fallback read returned the score an
\* earlier call had persisted, and that row is untouched
C4_Witness ==
    \E s \in Sessions :
        /\ outcome[s] = "last_known"
        /\ call_info[s].upserts = 1
        /\ call_info[s].fallback_reads = 1
        /\ ever_scored[wid[s]]
        /\ RowsOf(rag_scores, wid[s]) = call_info[s].before

\* C5: rag_scores holds at most one row per workstream_id, and after a
\* successful call that row is the result of the call
C5_OneRowPerWorkstream ==
    /\ \A w \in WorkstreamIds : Len(RowsOf(rag_scores, w)) <= 1
    /\ \A s \in Sessions :
        Fresh(s) =>
            BarCalculatedAt(RowsOf(rag_scores, wid[s])) = << <<wid[s], Get(result[s])>> >>

\* a second successful call has replaced the row the first one had written
\* over the seeded row
C5_Witness ==
    \E s \in Sessions :
        /\ Fresh(s)
        /\ calls_left <= MaxCalls - 2
        /\ call_info[s].before # <<>>
        /\ call_info[s].before[1].calculated_at # Null
        /\ Len(rag_scores) = 1

\* C6: two successive successful calls for the same workstream on the same
\* day, with no change of the data between them, return the same result and
\* leave the same persisted row but for calculated_at.  (SpecScore has no
\* action that changes the data.)
C6_Idempotent ==
    [][\A s \in Sessions :
        LET prev == last_call[wid[s]]
        IN  ( /\ pc[s] = "upsert"
              /\ outcome'[s] = "fresh"
              /\ prev # Null
              /\ Get(prev).outcome = "fresh"
              /\ Get(prev).started = now
              /\ call_info[s].started = now )
            => /\ Get(result'[s]) = Get(prev).result
               /\ BarCalculatedAt(RowsOf(rag_scores', wid[s])) = BarCalculatedAt(Get(prev).row)
      ]_vars

\* a second successful call on the day of the first has returned
C6_Witness ==
    \E s \in Sessions :
        /\ Fresh(s)
        /\ calls_left = MaxCalls - 2
        /\ call_info[s].started = 0
        /\ now = 0
        /\ milestones # <<>>

\* C7: the four scores of a successful calculate_rag lie in [0, 100]
C7_ScoresInRange ==
    \A s \in Sessions :
        Fresh(s) =>
            /\ InRange(Get(Get(result[s]).schedule_score))
            /\ InRange(Get(Get(result[s]).budget_score))
            /\ InRange(Get(Get(result[s]).blocker_score))
            /\ InRange(Get(Get(result[s]).composite_score))

\* review_closing with an overdue incomplete milestone at the end of the span:
\* the penalty takes the schedule score below 0 and the clamp returns 0, while
\* spend is 100 times the planned budget
C7_Witness ==
    \E s \in Sessions :
        /\ Fresh(s)
        /\ Get(result[s]).schedule_score = Some(Num(0))
        /\ \E i \in DOMAIN spend_entries : spend_entries[i].amount = 400

\* C8: rag_status is green, amber or red exactly as the composite_score of the
\* same result (and of the same persisted row) is >= 70, in [40, 70) or < 40
StatusOf(composite_score) ==
    IF RGe(composite_score, Num(70)) THEN "green"
    ELSE IF RGe(composite_score, Num(40)) THEN "amber"
    ELSE "red"

C8_StatusFromStoredComposite ==
    /\ \A s \in Sessions :
        Fresh(s) =>
            Get(result[s]).rag_status = Some(StatusOf(Get(Get(result[s]).composite_score)))
    /\ \A i \in DOMAIN rag_scores :
        rag_scores[i].composite_score # Null =>
            rag_scores[i].rag_status = Some(StatusOf(Get(rag_scores[i].composite_score)))

\* C9: the three weights are positive, sum to 1, and are the raw weights
\* (0.40 or 0.10; 0.35, 0.45 or 0.05; 0.25) each divided by their sum
C9_WeightsRenormalised ==
    \A s \in Sessions :
        local[s].thresholds # Null =>
            LET th == Get(local[s].thresholds)
                row == wizard_config[wid[s]]
                q2 == IF row = Null THEN Null ELSE Get(row).q2_deadline_nature
                q4 == IF row = Null THEN Null ELSE Get(row).q4_budget_exposure
                raw_s == IF q2 = Some("ongoing") THEN Rat(10, 100) ELSE Rat(40, 100)
                raw_b == IF q4 = Some("client_billable") THEN Rat(45, 100)
                         ELSE IF q4 = Some("informal_none") THEN Rat(5, 100)
                         ELSE Rat(35, 100)
                raw_k == Rat(25, 100)
                sum == RAdd(RAdd(raw_s, raw_b), raw_k)
            IN  /\ RGt(th.w_schedule, Num(0))
                /\ RGt(th.w_budget, Num(0))
                /\ RGt(th.w_blocker, Num(0))
                /\ RAdd(RAdd(th.w_schedule, th.w_budget), th.w_blocker) = Num(1)
                /\ th.w_schedule = RDiv(raw_s, sum)
                /\ th.w_budget = RDiv(raw_b, sum)
                /\ th.w_blocker = RDiv(raw_k, sum)

\* q2 = ongoing with q4 = informal_none: raw 0.10, 0.05, 0.25 become 1/4, 1/8, 5/8
C9_Witness ==
    \E s \in Sessions :
        /\ local[s].thresholds # Null
        /\ wizard_config[wid[s]] # Null
        /\ Get(wizard_config[wid[s]]).q2_deadline_nature = Some("ongoing")
        /\ Get(wizard_config[wid[s]]).q4_budget_exposure = Some("informal_none")
        /\ Get(local[s].thresholds).w_schedule = Rat(1, 4)
        /\ Get(local[s].thresholds).w_budget = Rat(1, 8)
        /\ Get(local[s].thresholds).w_blocker = Rat(5, 8)

\* C10: with no storage failure, a call is never diverted into the fallback,
\* whatever rows and fields are absent
C10_AbsenceIsNotFailure ==
    \A s \in Sessions :
        /\ pc[s] # "fallback"
        /\ outcome[s] \in {"none", "running", "fresh"}

\* the scorer of the step that took the call of s into its except clause
RaisedIn(s) ==
    IF pc[s] # "fallback" THEN "none"
    ELSE IF local[s].thresholds = Null THEN "config"
    ELSE IF local[s].schedule_score = Null THEN "schedule"
    ELSE IF local[s].budget_score = Null THEN "budget"
    ELSE "blockers"

\* C11: a workstream without milestones gets schedule_score = 100, and the
\* schedule scorer does not raise on it, whatever the wizard answers and the
\* dates are, missing dates and a missing workstreams row included
C11_ZeroMilestonesScore100 ==
    \A s \in Sessions :
        RowsOf(milestones, wid[s]) = <<>> =>
            /\ RaisedIn(s) # "schedule"
            /\ local[s].schedule_score \in {Null, Some(Num(100))}

\* review_closing, no dates, no milestones: the schedule score is 100
C11_Witness ==
    \E s \in Sessions :
        /\ milestones = <<>>
        /\ local[s].schedule_score = Some(Num(100))
        /\ wizard_config[wid[s]] # Null
        /\ Get(wizard_config[wid[s]]).q7_phase = Some("review_closing")
        /\ workstreams[wid[s]] # Null
        /\ Get(workstreams[wid[s]]).start_date = Null

\* what the workstream of the call of s has, read as the scorers read it
WizardAnswer(s, q) ==
    IF wizard_config[wid[s]] = Null THEN Null ELSE Get(wizard_config[wid[s]])[q]

PlannedBudget(s) ==
    IF workstreams[wid[s]] = Null THEN Null ELSE Get(workstreams[wid[s]]).planned_budget

\* C12: budget_score = 100, and the budget scorer does not raise, whenever
\* q4 = informal_none or planned_budget is null or zero, whatever the spend
\* entries, the dates and the other wizard answers are
C12_NoBudgetScore100 ==
    \A s \in Sessions :
        ( \/ WizardAnswer(s, "q4_budget_exposure") = Some("informal_none")
          \/ PlannedBudget(s) \in {Null, Some(0)} )
            => /\ RaisedIn(s) # "budget"
               /\ local[s].budget_score \in {Null, Some(Num(100))}

\* informal_none with a planned budget of 4 and a spend of 400: the score is 100
C12_Witness ==
    \E s \in Sessions :
        /\ WizardAnswer(s, "q4_budget_exposure") = Some("informal_none")
        /\ PlannedBudget(s) = Some(4)
        /\ \E i \in DOMAIN spend_entries : spend_entries[i].amount = 400
        /\ local[s].budget_score = Some(Num(100))

\* the open blockers of the workstream of the call of s, by the status column
OpenBlockers(s) ==
    {i \in DOMAIN blockers :
        blockers[i].workstream_id = wid[s] /\ blockers[i].status = "open"}

\* the raw score C13 states, for cutoffs recent and aging
StatedRawScore(s, recent, aging) ==
    LET n == Cardinality(OpenBlockers(s))
        age == now - blockers[CHOOSE i \in OpenBlockers(s) : TRUE].date_raised
    IN  IF n = 0 THEN 100
        ELSE IF n >= 2 THEN 40
        ELSE IF age < recent THEN 80
        ELSE IF age <= aging THEN 55
        ELSE 25

\* C13: the raw blocker score is 100 without open blockers, 40 with two or
\* more, and 80, 55 or 25 by the age of the single open blocker against the
\* cutoffs (3, 7), or (1, 3) when q5 = blocked_external; resolved blockers do
\* not count
C13_RawBlockerScore ==
    \A s \in Sessions :
        local[s].thresholds # Null =>
            RawBlockerScore(OpenOf(blockers, wid[s]), Get(local[s].thresholds), now)
                = IF WizardAnswer(s, "q5_dependency_level") = Some("blocked_external")
                  THEN StatedRawScore(s, 1, 3)
                  ELSE StatedRawScore(s, 3, 7)

\* the blocker scorer has run on one open blocker aged 8 days beside a
\* resolved one: raw 25
C13_Witness ==
    \E s \in Sessions :
        /\ local[s].blocker_score = Some(Num(25))
        /\ Cardinality(OpenBlockers(s)) = 1
        /\ Len(blockers) = 2
        /\ now - blockers[CHOOSE i \in OpenBlockers(s) : TRUE].date_raised = 8

\* C14: with q5 = blocked_external the blocker score is max(0, raw - 10), and
\* raw otherwise, for the raw scores the scorer computes and for every raw
\* score from 0 to 100
C14_ExternalPenalty ==
    /\ \A raw \in 0..100 :
        /\ ExternalPenalty(raw, Some("blocked_external"))
                = Num(IF raw - 10 < 0 THEN 0 ELSE raw - 10)
        /\ \A q5 \in Answers({"self_contained", "depends_1_2", "depends_multiple"}) :
                ExternalPenalty(raw, q5) = Num(raw)
    /\ \A s \in Sessions :
        local[s].blocker_score # Null =>
            LET raw == RawBlockerScore(OpenOf(blockers, wid[s]), Get(local[s].thresholds), now)
            IN  Get(local[s].blocker_score) =
                    IF WizardAnswer(s, "q5_dependency_level") = Some("blocked_external")
                    THEN Num(IF raw - 10 < 0 THEN 0 ELSE raw - 10)
                    ELSE Num(raw)

\* blocked_external with one open blocker older than 3 days: raw 25 gives 15
C14_Witness ==
    \E s \in Sessions :
        /\ WizardAnswer(s, "q5_dependency_level") = Some("blocked_external")
        /\ Cardinality(OpenBlockers(s)) = 1
        /\ local[s].blocker_score = Some(Num(15))

\* C15: under overlapping calls, the rag_scores row of the workstream is at
\* every moment the seeded row or the complete result of one call, the call
\* whose upsert came last; once both sessions have finished, it is the result
\* one of them returned
C15_RowIsOneCallsResult ==
    \A w \in WorkstreamIds :
        /\ Len(RowsOf(rag_scores, w)) = 1
        /\ LET row == RowsOf(rag_scores, w)[1]
           IN  /\ ~ever_scored[w] => row.calculated_at = Null
               /\ ever_scored[w] =>
                    /\ last_call[w] # Null
                    /\ SixOf(row) = Get(last_call[w]).result
                    /\ (\A s \in RaceSessions : outcome[s] = "fresh")
                            => \E s \in RaceSessions : SixOf(row) = Get(result[s])

\* the two calls overlapped and have both finished: the one that read before
\* the blocker was logged wrote last, and the row is its result
C15_Witness ==
    /\ \A s \in RaceSessions : outcome[s] = "fresh"
    /\ result["s1"] # result["s2"]
    /\ \E i \in DOMAIN blockers : blockers[i].status = "open"
    /\ \E s \in RaceSessions :
        /\ SixOf(rag_scores[1]) = Get(result[s])
        /\ Get(result[s]).blocker_score = Some(Num(100))

\* the session s starts a call of calculate_rag for w in this step
StartsCall(s, w) ==
    /\ pc[s] = "idle"
    /\ pc'[s] = "config"
    /\ wid'[s] = w
    /\ local'[s] = NoLocal

\* the tracking data of w differ between the two states of the step
DataChanged(w) ==
    \/ workstreams'[w] # workstreams[w]
    \/ wizard_config'[w] # wizard_config[w]
    \/ RowsOf(milestones', w) # RowsOf(milestones, w)
    \/ RowsOf(spend_entries', w) # RowsOf(spend_entries, w)
    \/ RowsOf(blockers', w) # RowsOf(blockers, w)

\* C16: a step that commits a change of the tracking data of a workstream
\* starts, in the same session and with the change in place, one call of
\* calculate_rag for that workstream; the application starts a call in no
\* other way; a handler whose statement fails changes nothing and starts none
C16_MutationThenOneCall ==
    [][ /\ \A w \in WorkstreamIds :
            DataChanged(w) =>
                /\ calls_left' = calls_left - 1
                /\ \E s \in Sessions :
                    /\ StartsCall(s, w)
                    /\ \A t \in Sessions \ {s} : pc'[t] = pc[t]
        /\ \A s \in Sessions, w \in WorkstreamIds :
            StartsCall(s, w) => DataChanged(w)
        /\ (faults_left' # faults_left /\ \A s \in Sessions : pc[s] = "idle")
                => /\ dbVars' = dbVars
                   /\ pc' = pc
                   /\ calls_left' = calls_left
      ]_vars

\* a blocker has just been resolved and the call that follows has started
C16_Witness ==
    \E s \in Sessions :
        /\ pc[s] = "config"
        /\ local[s] = NoLocal
        /\ \E i \in DOMAIN blockers :
            blockers[i].workstream_id = wid[s] /\ blockers[i].status = "resolved"

\* the cutoffs C17 states, from the answers of the wizard row of the call of s
StatedCutoffs(s) ==
    LET q2 == WizardAnswer(s, "q2_deadline_nature")
        q4 == WizardAnswer(s, "q4_budget_exposure")
        q6 == WizardAnswer(s, "q6_risk_level")
        q7 == WizardAnswer(s, "q7_phase")
        sg == IF q7 = Some("review_closing") THEN -10
              ELSE IF q2 = Some("hard_contractual") THEN -5
              ELSE IF q2 = Some("ongoing") THEN -20 ELSE -10
        sa == IF q2 = Some("hard_contractual") THEN -15
              ELSE IF q2 = Some("ongoing") THEN -40 ELSE -25
        bg == IF q4 = Some("client_billable") THEN -3 ELSE -5
        ba == IF q7 = Some("discovery") THEN -20
              ELSE IF q4 = Some("client_billable") THEN -10 ELSE -15
        risk == IF q6 = Some("high") THEN 5 ELSE IF q6 = Some("critical") THEN 10 ELSE 0
    IN  [schedule_green |-> Num(sg + risk), schedule_amber |-> Num(sa + risk),
         budget_green |-> Num(bg + risk), budget_amber |-> Num(ba + risk)]

\* C17: the four resolved cutoffs are those of the rules applied in the order
\* q2, q4, q7, q6: q2 and q4 set them, review_closing replaces schedule green
\* by -10, discovery replaces budget amber by -20, and the risk level adds 5 or
\* 10 to all four
C17_CutoffsInRuleOrder ==
    \A s \in Sessions :
        local[s].thresholds # Null =>
            LET th == Get(local[s].thresholds)
                stated == StatedCutoffs(s)
            IN  /\ th.schedule_green = stated.schedule_green
                /\ th.schedule_amber = stated.schedule_amber
                /\ th.budget_green = stated.budget_green
                /\ th.budget_amber = stated.budget_amber

\* hard_contractual, review_closing, critical: schedule green is -10 + 10 = 0
\* and schedule amber -15 + 10 = -5
C17_Witness ==
    \E s \in Sessions :
        /\ local[s].thresholds # Null
        /\ WizardAnswer(s, "q2_deadline_nature") = Some("hard_contractual")
        /\ WizardAnswer(s, "q7_phase") = Some("review_closing")
        /\ WizardAnswer(s, "q6_risk_level") = Some("critical")
        /\ Get(local[s].thresholds).schedule_green = Num(0)
        /\ Get(local[s].thresholds).schedule_amber = Num(-5)

\* C18: the staleness window is 2, 8, 16 or 35 days by q8, 8 days when q8 is
\* unset or not one of the four, and half of that exactly when q6 = critical
C18_StalenessWindow ==
    \A s \in Sessions :
        local[s].thresholds # Null =>
            LET q8 == WizardAnswer(s, "q8_update_frequency")
                days == IF q8 = Some("daily") THEN 2
                        ELSE IF q8 = Some("biweekly") THEN 16
                        ELSE IF q8 = Some("monthly") THEN 35
                        ELSE 8
            IN  Get(local[s].thresholds).staleness_days =
                    IF WizardAnswer(s, "q6_risk_level") = Some("critical")
                    THEN Rat(days, 2) ELSE Num(days)

\* monthly and critical: 17.5 days
C18_Witness ==
    \E s \in Sessions :
        /\ local[s].thresholds # Null
        /\ WizardAnswer(s, "q8_update_frequency") = Some("monthly")
        /\ WizardAnswer(s, "q6_risk_level") = Some("critical")
        /\ Get(local[s].thresholds).staleness_days = Rat(35, 2)

\* elapsed_pct as stated: 100 on a zero or negative span, 0 before the start,
\* 100 after the end, the share of whole days passed otherwise
StatedElapsedPct(start_date, end_date, today) ==
    IF end_date <= start_date THEN Num(100)
    ELSE IF today < start_date THEN Num(0)
    ELSE IF today > end_date THEN Num(100)
    ELSE RMul(Rat(today - start_date, end_date - start_date), Num(100))

\* the schedule score before the phase penalty, as stated, from the schedule
\* variance and the cutoffs g > a
StatedScheduleScore(sv, g, a) ==
    IF RGe(sv, g) THEN Num(100)
    ELSE IF RGe(sv, a)
    THEN RAdd(Num(70), RMul(RDiv(RSub(sv, a), RSub(g, a)), Num(29)))
    ELSE RAdd(Num(1), RMul(RDiv(RAdd(RMax(sv, Num(-100)), Num(100)),
                                 RAdd(a, Num(100))), Num(68)))

\* the workstream of the call of s has a row with both dates
HasDates(s) ==
    /\ workstreams[wid[s]] # Null
    /\ Get(workstreams[wid[s]]).start_date # Null
    /\ Get(workstreams[wid[s]]).end_date # Null

\* SV = completion_pct - elapsed_pct of the workstream of the call of s
StatedVariance(s) ==
    LET ms == RowsOf(milestones, wid[s])
        ws == Get(workstreams[wid[s]])
        completion_pct == RMul(Rat(Count(ms, LAMBDA m : m.status = "complete"), Len(ms)),
                               Num(100))
    IN  RSub(completion_pct,
             StatedElapsedPct(Get(ws.start_date), Get(ws.end_date), now))

\* the phase penalty: 10 points per overdue incomplete milestone in
\* review_closing, nothing in any other phase
StatedPhasePenalty(s) ==
    IF WizardAnswer(s, "q7_phase") # Some("review_closing") THEN 0
    ELSE 10 * Count(RowsOf(milestones, wid[s]),
                    LAMBDA m : /\ m.status # "complete"
                               /\ m.due_date # Null
                               /\ Get(m.due_date) < now)

\* C19: with at least one milestone, the schedule score before the phase
\* penalty is 100 when SV >= g, SV mapped linearly from [a, g] onto [70, 99]
\* when a <= SV < g, and max(SV, -100) mapped linearly from [-100, a] onto
\* [1, 69] when SV < a; the stored score is that value less the penalty, kept
\* within [0, 100]
C19_ScheduleScoreBands ==
    \A s \in Sessions :
        (/\ local[s].schedule_score # Null
         /\ RowsOf(milestones, wid[s]) # <<>>
         /\ HasDates(s)) =>
            LET stated == StatedCutoffs(s)
                g == stated.schedule_green
                a == stated.schedule_amber
                before_penalty == StatedScheduleScore(StatedVariance(s), g, a)
                after_penalty == RSub(before_penalty, Num(StatedPhasePenalty(s)))
            IN  /\ RGt(g, a)
                /\ Get(local[s].schedule_score) =
                       RMax(Num(0), RMin(Num(100), after_penalty))

\* default cutoffs, 0 of 4 milestones complete at 50% elapsed: SV = -50 and
\* the score is 1 + (50/75) * 68 = 139/3
C19_Witness ==
    \E s \in Sessions :
        /\ wizard_config[wid[s]] = Null
        /\ HasDates(s)
        /\ Get(workstreams[wid[s]]).start_date = Some(0)
        /\ Get(workstreams[wid[s]]).end_date = Some(2)
        /\ now = 1
        /\ Len(RowsOf(milestones, wid[s])) = 4
        /\ \A i \in 1..4 : milestones[i].status # "complete"
        /\ local[s].schedule_score = Some(Rat(139, 3))

\* C20: elapsed_pct is within [0, 100] and is 100 on a zero or negative span,
\* 0 before the start date, 100 after the end date and the share of whole days
\* passed otherwise; the schedule and the budget scorer compute the same value
\* for the same workstream and day, and neither raises on any order of dates
C20_ElapsedPct ==
    \A s \in Sessions :
        HasDates(s) =>
            LET ws == Get(workstreams[wid[s]])
                start_date == Get(ws.start_date)
                end_date == Get(ws.end_date)
                of_schedule == ScheduleTimePct(start_date, end_date, now)
                of_budget == BudgetTimePct(start_date, end_date, now)
            IN  /\ of_schedule = StatedElapsedPct(start_date, end_date, now)
                /\ of_budget = of_schedule
                /\ RGe(of_budget, Num(0)) /\ RLe(of_budget, Num(100))
                /\ RaisedIn(s) \notin {"schedule", "budget"}

\* a workstream that ends before it starts, scored before its start date: both
\* scorers have returned and elapsed_pct is 100
C20_Witness ==
    \E s \in Sessions :
        /\ HasDates(s)
        /\ Get(workstreams[wid[s]]).start_date = Some(2)
        /\ Get(workstreams[wid[s]]).end_date = Some(1)
        /\ now = 0
        /\ RowsOf(milestones, wid[s]) # <<>>
        /\ Get(workstreams[wid[s]]).planned_budget = Some(4)
        /\ local[s].schedule_score # Null
        /\ local[s].budget_score # Null
        /\ BudgetTimePct(2, 1, now) = Num(100)

\* C21: in review_closing the schedule score is max(0, banded - 10 * n), n the
\* number of milestones that are not complete and due strictly before today;
\* in every other phase, and with no phase, the score is the banded score
C21_PhasePenalty ==
    \A s \in Sessions :
        (/\ local[s].schedule_score # Null
         /\ RowsOf(milestones, wid[s]) # <<>>
         /\ HasDates(s)) =>
            LET ms == RowsOf(milestones, wid[s])
                stated == StatedCutoffs(s)
                banded == StatedScheduleScore(StatedVariance(s), stated.schedule_green,
                                              stated.schedule_amber)
                n == Cardinality({ i \in 1..Len(ms) :
                                     /\ ms[i].status # "complete"
                                     /\ ms[i].due_date # Null
                                     /\ Get(ms[i].due_date) < now })
                score == Get(local[s].schedule_score)
            IN  IF WizardAnswer(s, "q7_phase") = Some("review_closing")
                THEN score = RMax(Num(0), RSub(banded, Num(10 * n)))
                ELSE score = banded

\* review_closing on day 2 of 3, four incomplete milestones due on day 1: the
\* banded score is below 40 and the penalty of 40 leaves 0; the same
\* milestones on their due date lose nothing
C21_Witness ==
    \E s \in Sessions :
        /\ WizardAnswer(s, "q7_phase") = Some("review_closing")
        /\ Len(milestones) = 4
        /\ \A i \in 1..4 : /\ milestones[i].status = "not_started"
                           /\ milestones[i].due_date = Some(1)
        /\ now = 2
        /\ local[s].schedule_score = Some(Num(0))

\* BV as stated: (planned_budget * elapsed_pct / 100 - sum of the amounts of
\* all spend entries) / planned_budget * 100
StatedBudgetVariance(s) ==
    LET ws == Get(workstreams[wid[s]])
        planned == Num(Get(ws.planned_budget))
        elapsed_pct == StatedElapsedPct(Get(ws.start_date), Get(ws.end_date), now)
        entries == RowsOf(spend_entries, wid[s])
        spent == Num(SumAmounts(entries))
    IN  RMul(RDiv(RSub(RDiv(RMul(planned, elapsed_pct), Num(100)), spent), planned),
             Num(100))

\* C22: with a tracked budget (q4 not informal_none, planned_budget > 0) the
\* budget score is the two-band mapping of BV under the resolved budget
\* cutoffs: 100 at BV >= g, [a, g] onto [70, 99], and [-100, a] onto [1, 69]
\* with BV held at -100 from below
C22_BudgetScoreBands ==
    \A s \in Sessions :
        (/\ local[s].budget_score # Null
         /\ HasDates(s)
         /\ WizardAnswer(s, "q4_budget_exposure") # Some("informal_none")
         /\ PlannedBudget(s) # Null
         /\ Get(PlannedBudget(s)) > 0) =>
            LET stated == StatedCutoffs(s)
            IN  Get(local[s].budget_score) =
                    StatedScheduleScore(StatedBudgetVariance(s), stated.budget_green,
                                        stated.budget_amber)

\* default cutoffs, a budget of 4 with 5 spent at the end date: BV = -25 and
\* the score is 1 + (75/85) * 68 = 61
C22_Witness ==
    \E s \in Sessions :
        /\ wizard_config[wid[s]] = Null
        /\ HasDates(s)
        /\ Get(workstreams[wid[s]]).start_date = Some(0)
        /\ Get(workstreams[wid[s]]).end_date = Some(2)
        /\ PlannedBudget(s) = Some(4)
        /\ now = 2
        /\ Len(spend_entries) = 1 /\ spend_entries[1].amount = 5
        /\ local[s].budget_score = Some(Num(61))

\* the timestamps of the tracking data of workstream w: milestones.updated_at,
\* spend_entries.created_at and blockers.updated_at, over the tables with rows
TrackingTimestamps(w) ==
    LET ms == RowsOf(milestones, w)
        spends == RowsOf(spend_entries, w)
        bls == RowsOf(blockers, w)
    IN  {ms[i].updated_at : i \in DOMAIN ms}
        \cup {spends[i].created_at : i \in DOMAIN spends}
        \cup {bls[i].updated_at : i \in DOMAIN bls}

\* stale as stated: some tracking row exists and the most recent timestamp is
\* more than the window before today
StatedStale(w, window, today) ==
    /\ TrackingTimestamps(w) # {}
    /\ RGt(Num(today - MaxOf(TrackingTimestamps(w))), window)

\* C23: is_stale of a call is true exactly when the workstream has a row in
\* milestones, spend_entries or blockers and now minus the most recent of
\* their timestamps, over the tables that have rows, exceeds the resolved
\* window; it is false when none of the three has a row
C23_StaleFromAnyTable ==
    \A s \in Sessions :
        (pc[s] = "upsert" /\ local[s].is_stale # Null) =>
            Get(local[s].is_stale) =
                StatedStale(wid[s], Get(local[s].thresholds).staleness_days, now)

\* the call of s returns from a successful upsert in this step
ReturnsFresh(s) == pc[s] = "upsert" /\ pc'[s] = "idle" /\ outcome'[s] = "fresh"

\* the default weights, as the example states them
ExampleWeights == [w_schedule |-> Rat(40, 100), w_budget |-> Rat(35, 100),
                   w_blocker |-> Rat(25, 100)]

\* C24: the composite of a successful call is schedule_score * w_schedule +
\* budget_score * w_budget + blocker_score * w_blocker under the renormalised
\* weights, to two decimals, and lies between the smallest and the largest of
\* the three sub-scores; (85, 60, 90) under the default weights gives 77.5, green
C24_CompositeIsWeightedMean ==
    [][\A s \in Sessions :
        ReturnsFresh(s) =>
            LET th == Get(local[s].thresholds)
                sch == Get(local[s].schedule_score)
                bud == Get(local[s].budget_score)
                blk == Get(local[s].blocker_score)
                stated == RAdd(RAdd(RMul(sch, th.w_schedule), RMul(bud, th.w_budget)),
                               RMul(blk, th.w_blocker))
                res == Get(result'[s])
                composite == Get(res.composite_score)
                subs == {Get(res.schedule_score), Get(res.budget_score),
                         Get(res.blocker_score)}
            IN  /\ composite = Round2(stated)
                /\ \E lo \in subs : RLe(lo, composite)
                /\ \E hi \in subs : RLe(composite, hi)
                /\ Composite(Num(85), Num(60), Num(90), ExampleWeights) = Rat(155, 2)
                /\ RagStatus(Composite(Num(85), Num(60), Num(90), ExampleWeights)) = "green"
      ]_vars

\* a successful call whose composite is strictly between its smallest and its
\* largest sub-score
C24_Witness ==
    \E s \in Sessions :
        /\ Fresh(s)
        /\ \E field \in {"schedule_score", "budget_score", "blocker_score"} :
            RLt(Get(Get(result[s])[field]), Get(Get(result[s]).composite_score))
        /\ \E field \in {"schedule_score", "budget_score", "blocker_score"} :
            RLt(Get(Get(result[s]).composite_score), Get(Get(result[s])[field]))

\* the result calculate_rag gives when all its reads see the database db
ScoreOfDatabase(db, w, today) ==
    LET config == _get_wizard_config(db.wizard_config[w], db.workstreams[w])
        thresholds == _apply_wizard_modifiers(config, BaselineTables)
        sch == _score_schedule(db.workstreams[w], RowsOf(db.milestones, w), thresholds, today)
        bud == _score_budget(db.workstreams[w], SumAmounts(RowsOf(db.spend_entries, w)),
                             thresholds, today)
        blk == _score_blockers(OpenOf(db.blockers, w), thresholds, today)
        stale == _check_staleness(RowsOf(db.milestones, w), RowsOf(db.spend_entries, w),
                                  RowsOf(db.blockers, w), thresholds.staleness_days, today)
    IN  IF sch.raised \/ bud.raised \/ blk.raised THEN Null
        ELSE Some(ResultDict(sch.value, bud.value, blk.value, stale, thresholds))

\* C25: the result of a successful call is the score of one state of the
\* database that existed during the call, also when mutations of the
\* workstream are committed while the call is reading
C25_SingleSnapshot ==
    \A s \in RaceSessions :
        outcome[s] = "fresh" =>
            \E db \in call_info[s].seen :
                result[s] = ScoreOfDatabase(db, wid[s], call_info[s].started)

\* C26: whatever the wizard answers, the resolved parameters have green cutoff
\* > amber cutoff > -100 for schedule and for budget, and 0 < blocker recent
\* days <= blocker aging days: no interpolation band is empty or inverted
C26_BandsNeverEmpty ==
    \A s \in Sessions :
        local[s].thresholds # Null =>
            LET th == Get(local[s].thresholds)
            IN  /\ RGt(th.schedule_green, th.schedule_amber)
                /\ RGt(th.schedule_amber, Num(-100))
                /\ RGt(th.budget_green, th.budget_amber)
                /\ RGt(th.budget_amber, Num(-100))
                /\ 0 < th.blocker_recent_days
                /\ th.blocker_recent_days <= th.blocker_aging_days

\* hard_contractual in review_closing at low risk, the narrowest schedule band:
\* green -10 over amber -15
C26_Witness ==
    \E s \in Sessions :
        /\ local[s].thresholds # Null
        /\ WizardAnswer(s, "q2_deadline_nature") = Some("hard_contractual")
        /\ WizardAnswer(s, "q7_phase") = Some("review_closing")
        /\ WizardAnswer(s, "q6_risk_level") = Some("low")
        /\ WizardAnswer(s, "q5_dependency_level") = Some("blocked_external")
        /\ Get(local[s].thresholds).schedule_green = Num(-10)
        /\ Get(local[s].thresholds).schedule_amber = Num(-15)
        /\ Get(local[s].thresholds).blocker_recent_days = 1

\* C27: the module-level baseline tables are never changed, and the result of
\* a call for a workstream is the score of that workstream's own data on the
\* day of the call, whichever workstreams were scored before it or are being
\* scored while it runs
C27_BaselinesUntouched ==
    /\ tables = BaselineTables
    /\ \A s \in RaceSessions :
        outcome[s] = "fresh" =>
            result[s] = ScoreOfDatabase(Database, wid[s], call_info[s].started)

\* the other workstream, with other wizard answers, was scored twice before
\* and the two results differ
C27_Witness ==
    /\ outcome["s1"] = "fresh" /\ outcome["s2"] = "fresh"
    /\ wid["s1"] = "w1" /\ wid["s2"] = "w2"
    /\ wizard_config["w1"] = Null
    /\ wizard_config["w2"] # Null
    /\ calls_left = 0
    /\ now > 0
    /\ milestones # <<>>
    /\ Get(result["s1"]).schedule_score # Some(Num(100))

\* C28: resolving an open blocker never lowers the blocker score: for the
\* blockers the call of s has scored, the score of the same blockers with any
\* one open blocker marked resolved, on the same day and under the same
\* parameters, is at least the score the call computed
C28_ResolvingNeverLowers ==
    \A s \in Sessions :
        (local[s].blocker_score # Null /\ local[s].thresholds # Null) =>
            \A i \in DOMAIN blockers :
                (blockers[i].workstream_id = wid[s] /\ blockers[i].status = "open") =>
                    LET resolved == [blockers EXCEPT ![i].status = "resolved"]
                        after == _score_blockers(OpenOf(resolved, wid[s]),
                                                 Get(local[s].thresholds), now)
                    IN  RGe(after.value, Get(local[s].blocker_score))

\* the staleness window the wizard answers of workstream w resolve to
ResolvedWindow(w) ==
    _apply_wizard_modifiers(_get_wizard_config(wizard_config[w], workstreams[w]),
                            BaselineTables).staleness_days

\* the persisted rag_scores row of w says stale
PersistedStale(w) ==
    \E i \in DOMAIN rag_scores :
        rag_scores[i].workstream_id = w /\ rag_scores[i].is_stale = Some(TRUE)

\* C29: as days pass and calculate_rag runs only after mutations, whenever the
\* most recent tracking timestamp of a workstream is older than its resolved
\* window, the persisted row has, or eventually gets, is_stale = true
C29_StalenessIsPersisted ==
    \A w \in WorkstreamIds :
        StatedStale(w, ResolvedWindow(w), now) ~> PersistedStale(w)

\* C30: when the calls triggered by mutations of one workstream overlap, then
\* once every call has completed successfully the persisted row is the score
\* of the data after all the mutations, in every interleaving of the reads and
\* the upserts
C30_FreshAfterOverlap ==
    \A w \in WorkstreamIds :
        (\A s \in RaceSessions : pc[s] = "idle" /\ outcome[s] = "fresh" /\ wid[s] = w) =>
            \E i \in DOMAIN rag_scores :
                /\ rag_scores[i].workstream_id = w
                /\ Some(SixOf(rag_scores[i])) = ScoreOfDatabase(Database, w, now)

====
